---- MODULE Spec2Model ----
(***************************************************************************)
(* A model of src/arxiv_scraper.py: the Record mapper, the Scraper         *)
(* constructor, the keyword filter and the paginated fetch loop            *)
(* Scraper.scrape with its 503 backoff and its time budget.                *)
(*                                                                         *)
(* Python strings are sequences of one-character strings; the literal      *)
(* pieces of a URL (BASE, "from=", ...) are kept as single elements.       *)
(* Python's None is the value None below.                                  *)
(***************************************************************************)
EXTENDS Integers, Sequences, FiniteSets, TLC

\* ------------------------------------------------------------------ bounds
MaxPages == 2
Max503 == 2
MaxTimeout == 3
MaxDelay == 1

\* --------------------------------------------------------------- constants
BASE == "http://export.arxiv.org/oai2?verb=ListRecords&"
None == <<"<None>">>

\* ----------------------------------------------------------------- strings
IsNone(x) == x = None

\* str.lower() on the characters the inputs use
LowerChar(c) ==
    CASE c = "A" -> "a"
      [] c = "B" -> "b"
      [] c = "D" -> "d"
      [] c = "I" -> "i"
      [] c = "F" -> "f"
      [] c = "X" -> "x"
      [] OTHER -> c

Lower(s) == [i \in 1..Len(s) |-> LowerChar(s[i])]

IsSpace(c) == c \in {" ", "\n", "\t"}

RECURSIVE LStrip(_)
LStrip(s) ==
    IF s # <<>> /\ IsSpace(Head(s)) THEN LStrip(Tail(s)) ELSE s

RECURSIVE RStrip(_)
RStrip(s) ==
    IF s # <<>> /\ IsSpace(s[Len(s)]) THEN RStrip(SubSeq(s, 1, Len(s) - 1)) ELSE s

\* str.strip()
Strip(s) == RStrip(LStrip(s))

\* str.replace("\n", " ")
ReplaceNewline(s) == [i \in 1..Len(s) |-> IF s[i] = "\n" THEN " " ELSE s[i]]

\* the Python test  w in s  for two strings
InStr(w, s) ==
    \E i \in 1..(Len(s) - Len(w) + 1) : SubSeq(s, i, i + Len(w) - 1) = w

\* the Python test  w in l  for a list l
InList(w, l) == \E i \in 1..Len(l) : l[i] = w

\* ------------------------------------------------------------------ Record
\* An arXiv metadata fragment: text maps a child tag to its text (None when
\* the child is missing or has no text); authors is the sequence of author
\* elements, each with keyname, forenames, affiliation texts (or None).
TextTags == {"id", "title", "abstract", "categories", "created", "updated", "doi"}

\* Record._get_text
GetText(xml, tag) ==
    IF IsNone(xml.text[tag]) THEN <<>>
    ELSE ReplaceNewline(Lower(Strip(xml.text[tag])))

\* Record._get_name
GetName(author, attribute) ==
    IF IsNone(author[attribute]) THEN <<"n", "/", "a">>
    ELSE Lower(author[attribute])

\* Record._get_authors
GetAuthors(xml) ==
    [i \in 1..Len(xml.authors) |->
        GetName(xml.authors[i], "forenames") \o <<" ">> \o GetName(xml.authors[i], "keyname")]

\* Record._get_affiliation
GetAffiliation(xml) ==
    IF \E i \in 1..Len(xml.authors) : IsNone(xml.authors[i].affiliation) THEN <<>>
    ELSE [i \in 1..Len(xml.authors) |-> Lower(xml.authors[i].affiliation)]

\* Record.__init__ followed by Record.output
RecordOutput(xml) ==
    [title |-> GetText(xml, "title"),
     id |-> GetText(xml, "id"),
     abstract |-> GetText(xml, "abstract"),
     categories |-> GetText(xml, "categories"),
     doi |-> GetText(xml, "doi"),
     created |-> GetText(xml, "created"),
     updated |-> GetText(xml, "updated"),
     authors |-> GetAuthors(xml),
     affiliation |-> GetAffiliation(xml),
     url |-> <<"https://arxiv.org/abs/">> \o GetText(xml, "id")]

RecordKeys == {"title", "id", "abstract", "categories", "doi", "created",
               "updated", "authors", "affiliation", "url"}

ListKeys == {"authors", "affiliation"}

\* ------------------------------------------------------------------- dates
IsLeap(y) == (y % 4 = 0 /\ y % 100 # 0) \/ y % 400 = 0

DaysIn(y, m) ==
    IF m = 2 THEN (IF IsLeap(y) THEN 29 ELSE 28)
    ELSE IF m \in {4, 6, 9, 11} THEN 30 ELSE 31

\* datetime.date.today() - datetime.timedelta(days=1)
DayBefore(d) ==
    IF d.d > 1 THEN [y |-> d.y, m |-> d.m, d |-> d.d - 1]
    ELSE IF d.m > 1 THEN [y |-> d.y, m |-> d.m - 1, d |-> DaysIn(d.y, d.m - 1)]
    ELSE [y |-> d.y - 1, m |-> 12, d |-> 31]

Digits == <<"0", "1", "2", "3", "4", "5", "6", "7", "8", "9">>

DigitChar(n) == Digits[n + 1]

\* str(date): YYYY-MM-DD
DateStr(d) ==
    <<DigitChar(d.y \div 1000), DigitChar((d.y \div 100) % 10),
      DigitChar((d.y \div 10) % 10), DigitChar(d.y % 10), "-",
      DigitChar(d.m \div 10), DigitChar(d.m % 10), "-",
      DigitChar(d.d \div 10), DigitChar(d.d % 10)>>

\* ------------------------------------------------------- Scraper.__init__
\* filters is a dict, modelled as the sequence of its (key, words) items.
Failure(e) == [exc |-> e]

\* the local variable yesterday is bound only on the date_from-is-None path
\* (line 97); line 103 reads it
ScraperInit(category, date_from, date_until, t, timeout, filters, today) ==
    LET yesterday == IF IsNone(date_from) THEN DateStr(DayBefore(today)) ELSE None
        f == IF IsNone(date_from) THEN yesterday ELSE date_from
    IN  IF IsNone(date_until) /\ ~IsNone(date_from) THEN Failure("UnboundLocalError")
        ELSE LET u == IF IsNone(date_until) THEN yesterday ELSE date_until
             IN  [exc |-> "none",
                  cat |-> category,
                  t |-> t,
                  timeout |-> timeout,
                  f |-> f,
                  u |-> u,
                  url |-> <<BASE, "from=">> \o f \o <<"&until=">> \o u
                          \o <<"&metadataPrefix=arXiv&set=">> \o category,
                  filters |-> filters,
                  append_all |-> (filters = <<>>),
                  keys |-> [i \in 1..Len(filters) |-> filters[i].key]]

\* ------------------------------------------------------------ filter step
\* line 154: word.lower() in record[key]; record[key] raises KeyError when
\* key is no key of the record, and is a list for authors and affiliation
RECURSIVE ScanWords(_, _, _, _, _)
ScanWords(words, j, key, record, save) ==
    IF j > Len(words) THEN [exc |-> "none", save |-> save]
    ELSE IF key \notin DOMAIN record THEN [exc |-> "KeyError", save |-> save]
    ELSE LET hit == IF key \in ListKeys THEN InList(Lower(words[j]), record[key])
                    ELSE InStr(Lower(words[j]), record[key])
         IN  ScanWords(words, j + 1, key, record, save \/ hit)

\* lines 152-155: for key in self.keys: for word in self.filters[key]
RECURSIVE ScanKeys(_, _, _, _)
ScanKeys(self, i, record, save) ==
    IF i > Len(self.keys) THEN [exc |-> "none", save |-> save]
    ELSE LET r == ScanWords(self.filters[i].words, 1, self.keys[i], record, save)
         IN  IF r.exc # "none" THEN r ELSE ScanKeys(self, i + 1, record, r.save)

\* lines 148-158: the decision for one record: "retain", "drop" or the
\* exception the step raises
FilterStep(self, record) ==
    IF self.append_all THEN "retain"
    ELSE LET r == ScanKeys(self, 1, record, FALSE)
         IN  IF r.exc # "none" THEN r.exc
             ELSE IF r.save THEN "retain" ELSE "drop"

\* lines 145-158: the loop over one page's records, appending to ds
RECURSIVE ProcessRecords(_, _, _, _)
ProcessRecords(self, records, i, ds) ==
    IF i > Len(records) THEN [exc |-> "none", ds |-> ds]
    ELSE LET record == RecordOutput(records[i])
             d == FilterStep(self, record)
         IN  IF d = "retain" THEN ProcessRecords(self, records, i + 1, Append(ds, record))
             ELSE IF d = "drop" THEN ProcessRecords(self, records, i + 1, ds)
             ELSE [exc |-> d, ds |-> ds]

\* ------------------------------------------------------------ environment
\* One page of the feed: lr says whether the document has a ListRecords
\* element, records are its record elements' arXiv fragments, token is
\* "absent" (no resumptionToken element), "notext" (an element without
\* text) or "text" (the text then names the next page), dur is the time
\* urlopen and read take for it.
XmlA ==
    [text |-> [id |-> <<"1">>, title |-> <<"A", " ", "X">>,
               abstract |-> <<" ", "D", "i", "f", "\n", "x">>,
               categories |-> <<"a">>, created |-> None, updated |-> None,
               doi |-> None],
     authors |-> <<[keyname |-> <<"B">>, forenames |-> None, affiliation |-> <<"X">>]>>]

XmlB ==
    [text |-> [id |-> <<"2">>, title |-> <<"b">>, abstract |-> <<"a", "b">>,
               categories |-> <<"a">>, created |-> None, updated |-> None,
               doi |-> <<"x">>],
     authors |-> <<>>]

PageRecords == {<<>>, <<XmlA>>, <<XmlB, XmlA>>}

FilterConfigs ==
    {<<>>,
     <<[key |-> "abstract", words |-> <<<<"D", "I", "F">>>>]>>,
     <<[key |-> "journal", words |-> <<<<"x">>>>]>>}

\* the token text the server puts on page i: the name of page i + 1
TokenText(i) == <<DigitChar(i + 1)>>

DigitValue(c) == CHOOSE n \in 0..9 : DigitChar(n) = c

MiddlePage(i, recs, dur) ==
    [lr |-> TRUE, records |-> recs, token |-> "text", text |-> TokenText(i), dur |-> dur]

LastPage(kind, recs, dur) ==
    [lr |-> kind # "nolr",
     records |-> IF kind = "nolr" THEN <<>> ELSE recs,
     token |-> IF kind = "notext" THEN "notext" ELSE "absent",
     text |-> None,
     dur |-> dur]

\* the time a successful request may take
Durations == {1, 2}

\* all feeds of n pages: every page but the last carries a token
Feeds(n) ==
    {[i \in 1..n |-> IF i < n THEN MiddlePage(i, rs[i], ds[i])
                               ELSE LastPage(kind, rs[i], ds[i])] :
        rs \in [1..n -> PageRecords], ds \in [1..n -> Durations],
        kind \in {"nolr", "absent", "notext"}}

\* the page the server returns for a URL of the scraper
ServerPage(feed, url) ==
    IF url[2] = "resumptionToken=" THEN feed[DigitValue(url[3])] ELSE feed[1]

\* Retry-After values of a 503 response: absent, seconds, an HTTP date
RetryAfterValues == {None, <<"1", "2", "0">>, <<"F", "r", "i", ",", " ", "3", "0">>}

FailDurations == {0, 1}

OtherCodes == {404, 500}

Today == [y |-> 2024, m |-> 3, d |-> 1]

\* int(s) succeeds: optional blanks, optional sign, decimal digits
IsIntLiteral(s) ==
    LET b == Strip(s)
        u == IF b # <<>> /\ Head(b) \in {"+", "-"} THEN Tail(b) ELSE b
    IN  u # <<>> /\ \A i \in 1..Len(u) : \E n \in 0..9 : DigitChar(n) = u[i]

\* line 135: int(e.hdrs.get("retry-after", 30)) raises ValueError or not
RetryAfterFails(hdr) == ~IsNone(hdr) /\ ~IsIntLiteral(hdr)

\* ------------------------------------------------------------------ state
VARIABLES
    pc,             \* "loop": scrape is about to call urlopen; "returned";
                    \* "raised"; "new", "built", "filter", "filtered" in the
                    \* constructor and filter specifications
    self,           \* the Scraper object (or the constructor's failure)
    feed,           \* the pages the server holds
    url, ds, k, elapsed, tx, now,   \* the locals of scrape; now is time.time()
    result,         \* what scrape returned
    exc,            \* the exception scrape raised
    requests,       \* the URLs handed to urlopen, in order
    sleeps,         \* the arguments of time.sleep, in order
    n503,           \* number of 503 responses received
    resp,           \* the last response: its status and how long it took
    pageTime,       \* fetch time of the pages whose time was added to elapsed
    backoffIn,      \* time of the 503 branch that preceded those pages
    backoffPending, \* time of the 503 branch since the last budget check
    budgetHit,      \* the loop was left at line 172
    call,           \* the arguments of the call under study
    ret             \* its return value

vars == <<pc, self, feed, url, ds, k, elapsed, tx, now, result, exc, requests,
          sleeps, n503, resp, pageTime, backoffIn, backoffPending, budgetHit,
          call, ret>>

NoResult == [kind |-> "none", list |-> <<>>, int |-> 0]
ListResult(l) == [kind |-> "list", list |-> l, int |-> 0]
IntResult(n) == [kind |-> "int", list |-> <<>>, int |-> n]

\* ----------------------------------------------------------------- scrape
\* lines 123-128
ScrapeStart(obj, pages) ==
    /\ pc = "loop"
    /\ self = obj
    /\ feed = pages
    /\ url = obj.url
    /\ ds = <<>>
    /\ k = 1
    /\ elapsed = 0
    /\ tx = 0
    /\ now = 0
    /\ result = NoResult
    /\ exc = "none"
    /\ requests = <<>>
    /\ sleeps = <<>>
    /\ n503 = 0
    /\ resp = [status |-> 0, dur |-> 0]
    /\ pageTime = 0
    /\ backoffIn = 0
    /\ backoffPending = 0
    /\ budgetHit = FALSE
    /\ call = <<>>
    /\ ret = <<>>

Init ==
    \E n \in 1..MaxPages : \E pages \in Feeds(n) :
    \E t \in 1..MaxDelay : \E timeout \in 0..MaxTimeout :
    \E filters \in FilterConfigs :
        ScrapeStart(ScraperInit(<<"c", "s">>, None, None, t, timeout, filters, Today),
                    pages)

\* a retry on every server error
IsRateLimit_5xx(code) == code >= 500

\* line 134
IsRateLimit(code) == code = 503

\* a 503 branch that restarts the page timer
TxAfterBackoff_reset(old, t) == t

\* the 503 branch leaves tx as it is (lines 134-138)
TxAfterBackoff(old, t) == old

\* line 170
Accumulate(e, t1, t2) == e + (t2 - t1)

\* a strict comparison
BudgetReached_strict(e, timeout) == e > timeout

\* line 171
BudgetReached(e, timeout) == e >= timeout

\* a lookup that takes a missing ListRecords for the end of the pages
TokenLookup_nocatch(page) ==
    IF ~page.lr \/ page.token = "absent" \/ page.token = "notext" THEN "end"
    ELSE "next"

\* lines 160-165: "malformed" when root.find(ListRecords) is None and the
\* chained find raises (caught at 162), "end" when the token is None or has
\* no text, else "next"
TokenLookup(page) ==
    IF ~page.lr THEN "malformed"
    ELSE IF page.token = "absent" \/ page.token = "notext" THEN "end"
    ELSE "next"

\* line 167
TokenUrl(page) == <<BASE, "resumptionToken=">> \o page.text

\* lines 133-140: urlopen raised HTTPError with this code and Retry-After
\* header after d time units
HandleHTTPError(code, hdr, d) ==
    /\ requests' = Append(requests, url)
    /\ resp' = [status |-> code, dur |-> d]
    /\ IF IsRateLimit(code)
       THEN /\ n503 < Max503
            /\ n503' = n503 + 1
            /\ IF RetryAfterFails(hdr)
               THEN /\ pc' = "raised"
                    /\ exc' = "ValueError"
                    /\ now' = now + d
                    /\ backoffPending' = backoffPending + d
                    /\ UNCHANGED <<sleeps, tx>>
               ELSE /\ sleeps' = Append(sleeps, self.t)
                    /\ now' = now + d + self.t
                    /\ tx' = TxAfterBackoff(tx, now + d + self.t)
                    /\ backoffPending' = backoffPending + d + self.t
                    /\ UNCHANGED <<pc, exc>>
       ELSE /\ pc' = "raised"
            /\ exc' = "HTTPError"
            /\ now' = now + d
            /\ UNCHANGED <<n503, sleeps, tx, backoffPending>>
    /\ UNCHANGED <<self, feed, url, ds, k, elapsed, result, pageTime, backoffIn,
                   budgetHit, call, ret>>

\* urlopen answers 503
Fetch503 ==
    /\ pc = "loop"
    /\ \E hdr \in RetryAfterValues : \E d \in FailDurations :
           HandleHTTPError(503, hdr, d)

\* urlopen answers another HTTP error
FetchHTTPError ==
    /\ pc = "loop"
    /\ \E code \in OtherCodes : \E d \in FailDurations :
           HandleHTTPError(code, None, d)

\* urlopen succeeds: lines 141-174 for the page the server returns. Time
\* passes in urlopen/read (page.dur) and in time.sleep; the two time.time()
\* calls of lines 169 and 174 read the same clock value.
FetchPage ==
    /\ pc = "loop"
    /\ LET page == ServerPage(feed, url)
           ty == now + page.dur
           r == ProcessRecords(self, page.records, 1, ds)
           tok == TokenLookup(page)
           e == Accumulate(elapsed, tx, ty)
       IN  /\ requests' = Append(requests, url)
           /\ resp' = [status |-> 200, dur |-> page.dur]
           /\ now' = ty
           /\ k' = k + 1
           /\ ds' = r.ds
           /\ IF r.exc # "none"
              THEN /\ pc' = "raised"
                   /\ exc' = r.exc
                   /\ UNCHANGED <<url, elapsed, tx, result, pageTime, backoffIn,
                                  backoffPending, budgetHit>>
              ELSE IF tok = "malformed"
              THEN /\ pc' = "returned"
                   /\ result' = IntResult(1)
                   /\ UNCHANGED <<url, elapsed, tx, exc, pageTime, backoffIn,
                                  backoffPending, budgetHit>>
              ELSE IF tok = "end"
              THEN /\ pc' = "returned"
                   /\ result' = ListResult(r.ds)
                   /\ UNCHANGED <<url, elapsed, tx, exc, pageTime, backoffIn,
                                  backoffPending, budgetHit>>
              ELSE /\ url' = TokenUrl(page)
                   /\ elapsed' = e
                   /\ pageTime' = pageTime + page.dur
                   /\ backoffIn' = backoffIn + backoffPending
                   /\ backoffPending' = 0
                   /\ exc' = exc
                   /\ IF BudgetReached(e, self.timeout)
                      THEN /\ pc' = "returned"
                           /\ result' = ListResult(r.ds)
                           /\ budgetHit' = TRUE
                           /\ tx' = tx
                      ELSE /\ pc' = "loop"
                           /\ tx' = ty
                           /\ UNCHANGED <<result, budgetHit>>
    /\ UNCHANGED <<self, feed, sleeps, n503, call, ret>>

Next == FetchPage \/ Fetch503 \/ FetchHTTPError

Spec == Init /\ [][Next]_vars

\* ------------------------------------------- the constructor on its own
Dates == {None, <<"2", "0", "2", "4", "-", "0", "1", "-", "0", "5">>,
          <<"2", "0", "2", "4", "-", "0", "2", "-", "0", "9">>}

Todays == {[y |-> 2024, m |-> 3, d |-> 1], [y |-> 2023, m |-> 1, d |-> 1],
           [y |-> 2025, m |-> 7, d |-> 16]}

Idle ==
    /\ feed = <<>>
    /\ url = <<>>
    /\ ds = <<>>
    /\ k = 1
    /\ elapsed = 0
    /\ tx = 0
    /\ now = 0
    /\ result = NoResult
    /\ exc = "none"
    /\ requests = <<>>
    /\ sleeps = <<>>
    /\ n503 = 0
    /\ resp = [status |-> 0, dur |-> 0]
    /\ pageTime = 0
    /\ backoffIn = 0
    /\ backoffPending = 0
    /\ budgetHit = FALSE
    /\ ret = <<>>

scrapeVars == <<feed, url, ds, k, elapsed, tx, now, result, requests, sleeps,
                n503, resp, pageTime, backoffIn, backoffPending, budgetHit>>

InitCtor ==
    /\ pc = "new"
    /\ self = <<>>
    /\ \E date_from \in Dates : \E date_until \in Dates :
       \E t \in 1..MaxDelay : \E timeout \in 0..MaxTimeout :
       \E filters \in FilterConfigs : \E today \in Todays :
          call = [category |-> <<"c", "s">>, date_from |-> date_from,
                  date_until |-> date_until, t |-> t, timeout |-> timeout,
                  filters |-> filters, today |-> today]
    /\ Idle

\* Scraper(category, date_from, date_until, t, timeout, filters)
Construct ==
    /\ pc = "new"
    /\ LET obj == ScraperInit(call.category, call.date_from, call.date_until,
                              call.t, call.timeout, call.filters, call.today)
       IN  /\ self' = obj
           /\ exc' = obj.exc
           /\ pc' = IF obj.exc = "none" THEN "built" ELSE "raised"
    /\ UNCHANGED scrapeVars
    /\ UNCHANGED <<call, ret>>

NextCtor == Construct

SpecCtor == InitCtor /\ [][NextCtor]_vars

\* ------------------------------------------- the filter step on its own
FilterKeys == {"abstract", "title", "authors", "journal"}

WordLists == {<<>>, <<<<"D", "I", "F">>>>, <<<<"x">>, <<"n", "/", "a", " ", "b">>>>}

Item(key, words) == [key |-> key, words |-> words]

\* the non-empty filter dicts of one or two keys
FilterDicts ==
    {<<Item(k1, w1)>> : k1 \in FilterKeys, w1 \in WordLists}
    \cup {<<Item(p[1], w1), Item(p[2], w2)>> :
            p \in {q \in FilterKeys \X FilterKeys : q[1] # q[2]},
            w1 \in WordLists, w2 \in WordLists}

InitFilter ==
    /\ pc = "filter"
    /\ \E filters \in FilterDicts : \E xml \in {XmlA, XmlB} :
          /\ self = ScraperInit(<<"c", "s">>, None, None, 1, 0, filters, Today)
          /\ call = [record |-> RecordOutput(xml)]
    /\ Idle

\* lines 148-158 for one record
ApplyFilter ==
    /\ pc = "filter"
    /\ ret' = <<FilterStep(self, call.record)>>
    /\ pc' = "filtered"
    /\ UNCHANGED scrapeVars
    /\ UNCHANGED <<self, exc, call>>

NextFilter == ApplyFilter

SpecFilter == InitFilter /\ [][NextFilter]_vars

\* ================================================================ claims
Last(s) == s[Len(s)]

\* the records of one page the filter step retains, in document order
RECURSIVE RetainedOf(_, _, _)
RetainedOf(obj, records, i) ==
    IF i > Len(records) THEN <<>>
    ELSE LET record == RecordOutput(records[i])
         IN  (IF FilterStep(obj, record) = "retain" THEN <<record>> ELSE <<>>)
             \o RetainedOf(obj, records, i + 1)

\* the retained records of pages 1..n, page by page
RECURSIVE AllRetained(_, _, _)
AllRetained(obj, pages, n) ==
    IF n = 0 THEN <<>>
    ELSE AllRetained(obj, pages, n - 1) \o RetainedOf(obj, pages[n].records, 1)

\* the base query, then the token URL of each page before page n
ExpectedUrls(obj, pages, n) ==
    [i \in 1..n |-> IF i = 1 THEN obj.url
                              ELSE <<BASE, "resumptionToken=">> \o pages[i - 1].text]

\* the time needed to fetch pages 1..n
RECURSIVE CumDur(_, _)
CumDur(pages, n) == IF n = 0 THEN 0 ELSE CumDur(pages, n - 1) + pages[n].dur

NoHTTPErrors == n503 = 0 /\ resp.status \in {0, 200}

EachPageRetains ==
    \A i \in 1..Len(feed) : RetainedOf(self, feed[i].records, 1) # <<>>

Ended == pc # "loop"

\* C1: for a feed of N pages whose pages all have a ListRecords element and
\* of which only the last lacks a token text, with no failing request and
\* the budget never reached, scrape issues exactly the N requests (base
\* query, then the token URLs in order) and returns the retained records of
\* pages 1..N in order, none dropped or repeated.
C1_Claim ==
    (Ended /\ NoHTTPErrors /\ ~budgetHit /\ feed[Len(feed)].lr)
        => /\ pc = "returned"
           /\ requests = ExpectedUrls(self, feed, Len(feed))
           /\ result = ListResult(AllRetained(self, feed, Len(feed)))

\* C2: a 503 answer is followed by a request to the identical URL, leaves
\* the accumulated records as they are, and the records finally returned
\* hold each fetched page's retained records exactly once.
C2_Claim ==
    /\ [][n503' > n503 => (pc' = "loop" /\ url' = url /\ ds' = ds)]_vars
    /\ []((pc = "returned" /\ result.kind = "list")
            => result.list = AllRetained(self, feed, k - 1))

\* C3 as stated: the elapsed time compared with the timeout is the fetch
\* time of the pages alone; no time of the 503 branch is part of it.
C3_Orig == elapsed = pageTime

\* C3 amended: the elapsed time compared with the timeout is all the time
\* since the previous check, the fetch time of the pages plus the time of
\* every 503 backoff (failed request and sleep) that preceded them.
C3_Thm == elapsed = pageTime + backoffIn

C3_Witness == pc = "loop" /\ resp.status = 200 /\ backoffIn > 0 /\ elapsed > pageTime

\* C4 as stated: without HTTP errors and with a retained record on every
\* page, a budget below the time needed for all pages makes scrape return
\* strictly fewer records than the full set, without raising.
C4_Orig ==
    (Ended /\ NoHTTPErrors /\ EachPageRetains
        /\ self.timeout < CumDur(feed, Len(feed)))
        => /\ pc = "returned"
           /\ result.kind = "list"
           /\ Len(result.list) < Len(AllRetained(self, feed, Len(feed)))

\* C4 amended: without HTTP errors and with a retained record on every
\* page, a budget no larger than the time needed for the pages before the
\* last one makes scrape return strictly fewer records than the full set,
\* without raising.
C4_Thm ==
    (Ended /\ NoHTTPErrors /\ EachPageRetains /\ Len(feed) >= 2
        /\ self.timeout <= CumDur(feed, Len(feed) - 1))
        => /\ pc = "returned"
           /\ result.kind = "list"
           /\ Len(result.list) < Len(AllRetained(self, feed, Len(feed)))

C4_Witness ==
    /\ pc = "returned" /\ NoHTTPErrors /\ EachPageRetains /\ Len(feed) >= 2
    /\ self.timeout > 0
    /\ self.timeout <= CumDur(feed, Len(feed) - 1)
    /\ budgetHit
    /\ Len(result.list) >= 1

\* C5: a fetched page without a ListRecords element ends scrape with the
\* sentinel 1 and no exception, whatever page it is and whatever was
\* accumulated; a page with a ListRecords element never yields the sentinel.
C5_Thm ==
    /\ resp.status = 200 =>
          (~ServerPage(feed, Last(requests)).lr <=> result = IntResult(1))
    /\ resp.status # 200 => result.kind # "int"
    /\ result.kind = "int" => (pc = "returned" /\ exc = "none")

C5_Witness ==
    /\ result = IntResult(1) /\ pc = "returned"
    /\ Len(requests) >= 2 /\ Len(ds) >= 1
    /\ ~ServerPage(feed, Last(requests)).lr

\* C6: an HTTP error other than 503 ends scrape with that error at once:
\* the failed request is the last one, nothing is slept for it, and nothing
\* is returned.
C6_Thm ==
    resp.status \in OtherCodes =>
        /\ pc = "raised" /\ exc = "HTTPError"
        /\ result = NoResult
        /\ Len(sleeps) = n503
        /\ Len(requests) = (k - 1) + n503 + 1
        /\ Last(requests) = url

C6_Witness ==
    /\ resp.status \in OtherCodes /\ pc = "raised"
    /\ Len(ds) >= 1 /\ k >= 2 /\ result = NoResult

\* the claim's reading of a configured word occurring in a field's value
Occurs(word, key, record) ==
    IF key \in ListKeys THEN InList(Lower(word), record[key])
    ELSE InStr(Lower(word), Lower(record[key]))

\* C7: the filter step decides retain or drop for every record and every
\* non-empty configuration without failing; a configured field that is no
\* key of the record does not match, and the record is retained exactly
\* when a configured field it has holds a configured substring.
C7_Claim ==
    pc = "filtered" =>
        /\ ret[1] \in {"retain", "drop"}
        /\ ret[1] = "retain" <=>
              \E i \in 1..Len(self.filters) :
                  /\ self.filters[i].key \in DOMAIN call.record
                  /\ \E j \in 1..Len(self.filters[i].words) :
                        Occurs(self.filters[i].words[j], self.filters[i].key, call.record)

\* C8: construction succeeds whichever of date_from and date_until are
\* given, each omitted one becomes yesterday's date on its own, and the
\* URL carries both.
C8_Claim ==
    pc # "new" =>
        LET y == DateStr(DayBefore(call.today))
            f == IF IsNone(call.date_from) THEN y ELSE call.date_from
            u == IF IsNone(call.date_until) THEN y ELSE call.date_until
        IN  /\ pc = "built"
            /\ self.f = f
            /\ self.u = u
            /\ self.url = <<BASE, "from=">> \o f \o <<"&until=">> \o u
                           \o <<"&metadataPrefix=arXiv&set=">> \o call.category

\* C9: a run of 503 answers is ended only by another answer: every 503 is
\* slept for and retried, whatever the timeout, and the budget is compared
\* only after a fetched page that carries a token text.
C9_Claim ==
    /\ Len(sleeps) = n503
    /\ Ended => resp.status # 503
    /\ budgetHit => (resp.status = 200
                      /\ ServerPage(feed, Last(requests)).token = "text")

\* C10: whatever the Retry-After header of a 503 answer holds, scrape
\* sleeps for the configured delay and retries the same URL; the header
\* never makes it fail.
C10_Claim ==
    /\ exc # "ValueError"
    /\ \A i \in 1..Len(sleeps) : sleeps[i] = self.t
    /\ resp.status = 503 => (pc = "loop" /\ url = Last(requests))

====
